---- MODULE Spec2Model ----
(***************************************************************************)
(* Task manager with category management (src/app.py).                     *)
(*                                                                         *)
(* The state is the MySQL database behind DatabaseManager (the tables      *)
(* categories, tasks and task_notes with their AUTO_INCREMENT counters)    *)
(* and, for every browser session, the reactive values of server() and the *)
(* position of the DatabaseManager call the session is executing.          *)
(*                                                                         *)
(* DATABASE_CONFIG sets autocommit, so every SQL statement is its own      *)
(* transaction: a DatabaseManager method that executes two statements is   *)
(* two steps, and another session's statements may run between them.       *)
(*                                                                         *)
(* Text is a sequence of one-character strings.  Timestamps are readings   *)
(* of a logical clock.  The column updated_at is left out: no code of      *)
(* app.py reads it.  A result set is modelled as the set of its rows: the  *)
(* ORDER BY created_at of the queries leaves rows of equal created_at in   *)
(* an unspecified order and no handler depends on the order.               *)
(*                                                                         *)
(* The specifications:                                                     *)
(*   Spec    the application: sessions pressing the buttons of the page;   *)
(*   SpecDb  one client calling the DatabaseManager methods directly, with *)
(*           arbitrary arguments; last records the call and pre the        *)
(*           database the call found;                                      *)
(*   SpecRace  two sessions updating and deleting tasks and deleting       *)
(*           categories; last records the handler and its inputs;          *)
(*   SpecUi  one session with its outputs tasks_table and categories_table *)
(*           and the results panel, and a database whose connections and   *)
(*           statements can fail; last records the handler.                *)
(***************************************************************************)
EXTENDS Integers, Sequences, FiniteSets, TLC

VARIABLES categories, tasks, task_notes, auto_increment, clock,
          pc, loc, ret, ui, last, ops, pre, connections

db == <<categories, tasks, task_notes, auto_increment>>
vars == <<categories, tasks, task_notes, auto_increment, clock,
          pc, loc, ret, ui, last, ops, pre, connections>>

(***************************************************************************)
(* Bounds                                                                  *)
(***************************************************************************)
\* handler invocations of all sessions in one behaviour of Spec
MaxOps == 2
\* method calls in one behaviour of SpecDb
MaxCalls == 1
\* largest task id, note id and category id handed out
MaxTaskId == 2
MaxNoteId == 2
MaxCatId == 3
\* largest reading of the clock
MaxClock == 1

Sessions == {1, 2}
\* the one client of SpecDb
Clients == {1}

TaskIds == 1..MaxTaskId
CatIds == 1..MaxCatId

(***************************************************************************)
(* Text                                                                    *)
(***************************************************************************)
Empty == <<>>
Space == <<" ">>
\* Python's None (the default of create_task's note parameter)
None == <<"None">>
Quoted == <<"'", "s", "'">>

Subjects == {Empty, Space, <<"s">>}
Notes == {Empty, <<" ", "n">>}
\* the note arguments of a direct call
NoteArgs == {None, Empty, Space, <<" ", "n">>}
Names == {Empty, Space, <<"s">>, Quoted}
Terms == {Empty, Space, <<"s">>}

\* `not x` of Python for x a str or None
Falsy(x) == x = None \/ x = Empty

IsSpace(c) == c = " "

RECURSIVE lstrip(_)
lstrip(x) == IF x # Empty /\ IsSpace(Head(x)) THEN lstrip(Tail(x)) ELSE x

RECURSIVE rstrip(_)
rstrip(x) ==
    IF x # Empty /\ IsSpace(x[Len(x)]) THEN rstrip(SubSeq(x, 1, Len(x) - 1)) ELSE x

\* str.strip()
strip(x) == rstrip(lstrip(x))

\* case folding of the collation utf8mb4_unicode_ci
Lower(c) == CASE c = "S" -> "s" [] c = "F" -> "f" [] c = "N" -> "n" [] OTHER -> c

Fold(x) == [i \in 1..Len(x) |-> Lower(x[i])]

\* the key a UNIQUE index of collation utf8mb4_unicode_ci compares: case is
\* folded and trailing spaces are ignored (PAD SPACE)
CollKey(x) == Fold(rstrip(x))

\* x LIKE p: % matches any run of characters, _ any one character
RECURSIVE Like(_, _)
Like(x, p) ==
    IF p = Empty THEN x = Empty
    ELSE IF Head(p) = "%" THEN Like(x, Tail(p)) \/ (x # Empty /\ Like(Tail(x), p))
    ELSE IF Head(p) = "_" THEN x # Empty /\ Like(Tail(x), Tail(p))
    ELSE x # Empty /\ Lower(Head(x)) = Lower(Head(p)) /\ Like(Tail(x), Tail(p))

(***************************************************************************)
(* Program constants                                                       *)
(***************************************************************************)
\* the first two of the seven default names, "Spouse" and "Family", cut to
\* their initials
DEFAULT_CATEGORIES == << <<"S">>, <<"F">> >>

STATUSES == <<"Idea", "Open", "Closed">>

StatusSet == {STATUSES[i] : i \in 1..Len(STATUSES)}

\* the statuses the model selects in the forms
StatusInputs == {s \in StatusSet : s # "Open"}

(***************************************************************************)
(* Values                                                                  *)
(***************************************************************************)
\* what a session remembers of the call it is executing
Call(h, op, id, text, category, status, note) ==
    [h |-> h, op |-> op, id |-> id, text |-> text, category |-> category,
     status |-> status, note |-> note]

NoArgs == Call("", "", 0, Empty, 0, "", Empty)

NoLoc == [call |-> NoArgs, lastrowid |-> 0]

\* return values: True/False, delete_category's pair, a list of rows
Bool(b) == [kind |-> "bool", ok |-> b, msg |-> "", count |-> 0, rows |-> {}]
Pair(b, m, n) == [kind |-> "pair", ok |-> b, msg |-> m, count |-> n, rows |-> {}]
Rows(r) == [kind |-> "rows", ok |-> TRUE, msg |-> "", count |-> 0, rows |-> r]
NoRet == [kind |-> "", ok |-> FALSE, msg |-> "", count |-> 0, rows |-> {}]

NoMessage == [msg |-> "", count |-> 0]

\* the messages of delete_category; the number a message shows is the count
\* of the pair
InUse == "Cannot delete category. {task_count} task(s) are using this category."
Deleted == "Category deleted successfully"
ErrorDeleting == "Error deleting category: {e}"

Snapshot == [categories |-> categories, tasks |-> tasks, task_notes |-> task_notes]

(***************************************************************************)
(* Schema                                                                  *)
(***************************************************************************)
\* mutant: the name column without UNIQUE
name_not_unique(id, name) == TRUE

\* categories.name ... UNIQUE: no other row holds the name
name_unique(id, name) ==
    \A c \in categories : c.id # id => CollKey(c.name) # CollKey(name)

\* tasks: FOREIGN KEY (category) REFERENCES categories(id) ON DELETE RESTRICT
fk_tasks_category(category) == \E c \in categories : c.id = category

\* mutant: tasks.category without the foreign key
fk_category_absent(category) == TRUE

\* the same key seen from the parent: a category row some task references
\* cannot be deleted
fk_category_restrict(category) == \A t \in tasks : t.category # category

\* mutant: task_notes.task_id without the foreign key
fk_notes_absent(task_id) == TRUE

\* task_notes: FOREIGN KEY (task_id) REFERENCES tasks(id) ON DELETE CASCADE
fk_notes_task(task_id) == \E t \in tasks : t.id = task_id

\* ... ON DELETE CASCADE: the notes that go with a deleted task
fk_notes_cascade(task_id) == {n \in task_notes : n.task_id = task_id}

(***************************************************************************)
(* Queries                                                                 *)
(***************************************************************************)
\* GROUP_CONCAT(tn.note ORDER BY tn.created_at SEPARATOR ' | '): NULL for a
\* task without notes; notes of equal created_at are taken in id order
RECURSIVE group_concat(_)
group_concat(ns) ==
    IF ns = {} THEN None
    ELSE LET first == CHOOSE n \in ns : \A m \in ns :
                          \/ n.created_at < m.created_at
                          \/ n.created_at = m.created_at /\ n.id <= m.id
             rest == ns \ {first}
         IN  IF rest = {} THEN first.note
             ELSE first.note \o <<" ", "|", " ">> \o group_concat(rest)

\* one row of SELECT t.*, c.name as category_name, GROUP_CONCAT(...) as notes
task_row(t, c) ==
    [id |-> t.id, subject |-> t.subject, category |-> t.category,
     status |-> t.status, created_at |-> t.created_at,
     category_name |-> c.name,
     notes |-> group_concat({n \in task_notes : n.task_id = t.id})]

\* tasks t JOIN categories c ON t.category = c.id
tasks_join_categories == {tc \in tasks \X categories : tc[1].category = tc[2].id}

get_all_tasks == {task_row(tc[1], tc[2]) : tc \in tasks_join_categories}

get_all_categories == categories

\* cursor.fetchone() of SELECT * FROM tasks WHERE id = %s: the rows found
get_task_by_id(task_id) == {t \in tasks : t.id = task_id}

get_task_notes(task_id) == {n \in task_notes : n.task_id = task_id}

\* the parameter search_tasks binds to both LIKE operands
search_pattern(search_term) == <<"'", "%">> \o search_term \o <<"%", "'">>

search_rows(search_term) ==
    {task_row(tc[1], tc[2]) :
        tc \in {x \in tasks_join_categories :
                   \/ Like(x[1].subject, search_pattern(search_term))
                   \/ Like(x[2].name, search_pattern(search_term))}}

\* SELECT COUNT(*) FROM tasks WHERE category = %s
task_count(category) == Cardinality({t \in tasks : t.category = category})

(***************************************************************************)
(* Reactive values of a session and what each handler does with the value  *)
(* its DatabaseManager call returned                                       *)
(***************************************************************************)
NewUi ==
    [refresh_tasks |-> 0, refresh_categories |-> 0,
     category_message |-> "", edit_category_message |-> NoMessage,
     search_results |-> {}, show_search_results |-> FALSE,
     tasks_table |-> {}, tasks_table_at |-> 0,
     categories_table |-> {}, categories_table_at |-> 0]

\* the output tasks_table of reactive values u recomputed: the rows of
\* get_all_tasks, and the value of refresh_tasks the output has read
tasks_table_render(u) ==
    [u EXCEPT !.tasks_table = get_all_tasks, !.tasks_table_at = u.refresh_tasks]

\* the output categories_table recomputed
categories_table_render(u) ==
    [u EXCEPT !.categories_table = get_all_categories,
              !.categories_table_at = u.refresh_categories]

\* mutant: a search that shows the panel and keeps the rows it held
perform_search_done_shows_only(u, r) ==
    [u EXCEPT !.show_search_results = TRUE]

add_new_category_done(u, r) ==
    IF r.ok
    THEN [u EXCEPT !.category_message = "Category added successfully!",
                   !.refresh_categories = @ + 1]
    ELSE [u EXCEPT !.category_message = "Error adding category. It may already exist."]

update_existing_category_done(u, r) ==
    IF r.ok
    THEN [u EXCEPT !.edit_category_message =
                       [msg |-> "Category updated successfully!", count |-> 0],
                   !.refresh_categories = @ + 1,
                   !.refresh_tasks = @ + 1]
    ELSE [u EXCEPT !.edit_category_message =
                       [msg |-> "Error updating category.", count |-> 0]]

delete_existing_category_done(u, r) ==
    LET v == [u EXCEPT !.edit_category_message = [msg |-> r.msg, count |-> r.count]]
    IN  IF r.ok THEN [v EXCEPT !.refresh_categories = @ + 1] ELSE v

add_new_task_done(u, r) ==
    IF r.ok THEN [u EXCEPT !.refresh_tasks = @ + 1] ELSE u

update_existing_task_done(u, r) ==
    IF r.ok THEN [u EXCEPT !.refresh_tasks = @ + 1] ELSE u

add_task_note_done(u, r) ==
    IF r.ok THEN [u EXCEPT !.refresh_tasks = @ + 1] ELSE u

delete_existing_task_done(u, r) ==
    IF r.ok THEN [u EXCEPT !.refresh_tasks = @ + 1] ELSE u

perform_search_done(u, r) ==
    [u EXCEPT !.search_results = r.rows, !.show_search_results = TRUE]

\* the reactive values of the caller after a call made by handler h returned r
on_return(h, u, r) ==
    CASE h = "add_new_category" -> add_new_category_done(u, r)
      [] h = "update_existing_category" -> update_existing_category_done(u, r)
      [] h = "delete_existing_category" -> delete_existing_category_done(u, r)
      [] h = "add_new_task" -> add_new_task_done(u, r)
      [] h = "update_existing_task" -> update_existing_task_done(u, r)
      [] h = "add_task_note" -> add_task_note_done(u, r)
      [] h = "delete_existing_task" -> delete_existing_task_done(u, r)
      [] h = "perform_search" -> perform_search_done(u, r)
      [] OTHER -> u

(***************************************************************************)
(* Control                                                                 *)
(***************************************************************************)
\* the calls that have begun and not returned
InProgress == Cardinality({s \in Sessions : pc[s] # "idle"})

CanBegin(s, budget) == pc[s] = "idle" /\ ops + InProgress < budget

\* the connections session s holds while a statement of its call executes:
\* a call that begins has opened one with get_connection
get_connection(s) == IF pc[s] = "idle" THEN connections[s] + 1 ELSE connections[s]

\* mutant: a finally clause that closes nothing
conn_close_skipped(n) == n

\* finally: cursor.close(); conn.close()
conn_close(n) == n - 1

\* session s's call c returns r to its caller, which then runs to its end
Return(s, c, r) ==
    /\ connections' = [connections EXCEPT ![s] = conn_close(get_connection(s))]
    /\ pc' = [pc EXCEPT ![s] = "idle"]
    /\ loc' = [loc EXCEPT ![s] = NoLoc]
    /\ ret' = [ret EXCEPT ![s] = r]
    /\ ui' = [ui EXCEPT ![s] = on_return(c.h, @, r)]
    /\ ops' = ops + 1

\* session s's call c has a further statement to execute, at label l
Continue(s, c, l, rowid) ==
    /\ pc' = [pc EXCEPT ![s] = l]
    /\ loc' = [loc EXCEPT ![s] = [call |-> c, lastrowid |-> rowid]]
    /\ connections' = [connections EXCEPT ![s] = get_connection(s)]
    /\ UNCHANGED <<ret, ui, ops>>

\* get_connection returned None: session s's call c returns r at once
NoConnection(s, c, r) ==
    /\ ret' = [ret EXCEPT ![s] = r]
    /\ ui' = [ui EXCEPT ![s] = on_return(c.h, @, r)]
    /\ ops' = ops + 1
    /\ UNCHANGED <<db, pc, loc, connections>>

\* a read of session s in a connection of its own (get_task_by_id,
\* get_all_tasks, get_all_categories), leaving the reactive values u
Query(s, u) ==
    /\ ui' = [ui EXCEPT ![s] = u]
    /\ connections' = [connections EXCEPT ![s] = conn_close(get_connection(s))]
    /\ UNCHANGED <<db, pc, loc, ret>>

\* a handler of session s ends without a DatabaseManager call, leaving the
\* reactive values u
Skip(s, c, u) ==
    /\ ui' = [ui EXCEPT ![s] = u]
    /\ ops' = ops + 1
    /\ UNCHANGED <<db, pc, loc, ret, connections>>

(***************************************************************************)
(* DatabaseManager                                                         *)
(***************************************************************************)
create_category(s, c) ==
    IF name_unique(0, c.text)
    THEN /\ categories' = categories \cup
               {[id |-> auto_increment.categories, name |-> c.text,
                 created_at |-> clock]}
         /\ auto_increment' = [auto_increment EXCEPT !.categories = @ + 1]
         /\ UNCHANGED <<tasks, task_notes>>
         /\ Return(s, c, Bool(TRUE))
    ELSE /\ UNCHANGED db
         /\ Return(s, c, Bool(FALSE))

update_category(s, c) ==
    IF (\E r \in categories : r.id = c.id) => name_unique(c.id, c.text)
    THEN /\ categories' = {IF r.id = c.id THEN [r EXCEPT !.name = c.text] ELSE r :
                              r \in categories}
         /\ UNCHANGED <<tasks, task_notes, auto_increment>>
         /\ Return(s, c, Bool(TRUE))
    ELSE /\ UNCHANGED db
         /\ Return(s, c, Bool(FALSE))

\* mutant: the early return taken for two tasks or more
delete_category_off_by_one(s, c) ==
    /\ UNCHANGED db
    /\ IF task_count(c.id) > 1
       THEN Return(s, c, Pair(FALSE, InUse, task_count(c.id)))
       ELSE Continue(s, c, "delete_category_delete", 0)

\* SELECT COUNT(*) and the early return
delete_category(s, c) ==
    /\ UNCHANGED db
    /\ IF task_count(c.id) > 0
       THEN Return(s, c, Pair(FALSE, InUse, task_count(c.id)))
       ELSE Continue(s, c, "delete_category_delete", 0)

\* DELETE FROM categories WHERE id = %s
delete_category_delete(s) ==
    LET c == loc[s].call
    IN  /\ pc[s] = "delete_category_delete"
        /\ UNCHANGED <<clock, last, pre>>
        /\ IF fk_category_restrict(c.id)
           THEN /\ categories' = {r \in categories : r.id # c.id}
                /\ UNCHANGED <<tasks, task_notes, auto_increment>>
                /\ Return(s, c, Pair(TRUE, Deleted, 0))
           ELSE /\ UNCHANGED db
                /\ Return(s, c, Pair(FALSE, ErrorDeleting, 0))

\* mutant: the note tested without strip()
create_task_unstripped(s, c) ==
    IF fk_tasks_category(c.category)
    THEN /\ tasks' = tasks \cup
               {[id |-> auto_increment.tasks, subject |-> c.text,
                 category |-> c.category, status |-> c.status,
                 created_at |-> clock]}
         /\ auto_increment' = [auto_increment EXCEPT !.tasks = @ + 1]
         /\ UNCHANGED <<categories, task_notes>>
         /\ IF ~Falsy(c.note)
            THEN Continue(s, c, "create_task_note", auto_increment.tasks)
            ELSE Return(s, c, Bool(TRUE))
    ELSE /\ UNCHANGED db
         /\ Return(s, c, Bool(FALSE))

\* INSERT INTO tasks and the test of the note
create_task(s, c) ==
    IF fk_tasks_category(c.category)
    THEN /\ tasks' = tasks \cup
               {[id |-> auto_increment.tasks, subject |-> c.text,
                 category |-> c.category, status |-> c.status,
                 created_at |-> clock]}
         /\ auto_increment' = [auto_increment EXCEPT !.tasks = @ + 1]
         /\ UNCHANGED <<categories, task_notes>>
         /\ IF ~Falsy(c.note) /\ ~Falsy(strip(c.note))
            THEN Continue(s, c, "create_task_note", auto_increment.tasks)
            ELSE Return(s, c, Bool(TRUE))
    ELSE /\ UNCHANGED db
         /\ Return(s, c, Bool(FALSE))

\* INSERT INTO task_notes of create_task
create_task_note(s) ==
    LET c == loc[s].call
        task_id == loc[s].lastrowid
    IN  /\ pc[s] = "create_task_note"
        /\ UNCHANGED <<clock, last, pre>>
        /\ IF fk_notes_task(task_id)
           THEN /\ task_notes' = task_notes \cup
                      {[id |-> auto_increment.task_notes, task_id |-> task_id,
                        note |-> strip(c.note), created_at |-> clock]}
                /\ auto_increment' = [auto_increment EXCEPT !.task_notes = @ + 1]
                /\ UNCHANGED <<categories, tasks>>
                /\ Return(s, c, Bool(TRUE))
           ELSE /\ UNCHANGED db
                /\ Return(s, c, Bool(FALSE))

search_tasks(s, c) ==
    /\ UNCHANGED db
    /\ Return(s, c, Rows(search_rows(c.text)))

\* mutant: an UPDATE that matched no row reported as a failure
update_task_checks_rowcount(s, c) ==
    IF (\E t \in tasks : t.id = c.id) /\ fk_tasks_category(c.category)
    THEN /\ tasks' = {IF t.id = c.id
                      THEN [t EXCEPT !.subject = c.text, !.category = c.category,
                                     !.status = c.status]
                      ELSE t : t \in tasks}
         /\ UNCHANGED <<categories, task_notes, auto_increment>>
         /\ Return(s, c, Bool(TRUE))
    ELSE /\ UNCHANGED db
         /\ Return(s, c, Bool(FALSE))

\* mutant: UPDATE tasks without WHERE id = %s
update_task_every_row(s, c) ==
    IF fk_tasks_category(c.category)
    THEN /\ tasks' = {[t EXCEPT !.subject = c.text, !.category = c.category,
                                !.status = c.status] : t \in tasks}
         /\ UNCHANGED <<categories, task_notes, auto_increment>>
         /\ Return(s, c, Bool(TRUE))
    ELSE /\ UNCHANGED db
         /\ Return(s, c, Bool(FALSE))

update_task(s, c) ==
    IF (\E t \in tasks : t.id = c.id) => fk_tasks_category(c.category)
    THEN /\ tasks' = {IF t.id = c.id
                      THEN [t EXCEPT !.subject = c.text, !.category = c.category,
                                     !.status = c.status]
                      ELSE t : t \in tasks}
         /\ UNCHANGED <<categories, task_notes, auto_increment>>
         /\ Return(s, c, Bool(TRUE))
    ELSE /\ UNCHANGED db
         /\ Return(s, c, Bool(FALSE))

\* mutant: the new note put in the place of the task's notes
add_note_to_task_overwrite(s, c) ==
    IF fk_notes_task(c.id)
    THEN /\ task_notes' = {n \in task_notes : n.task_id # c.id} \cup
               {[id |-> auto_increment.task_notes, task_id |-> c.id,
                 note |-> c.note, created_at |-> clock]}
         /\ auto_increment' = [auto_increment EXCEPT !.task_notes = @ + 1]
         /\ UNCHANGED <<categories, tasks>>
         /\ Return(s, c, Bool(TRUE))
    ELSE /\ UNCHANGED db
         /\ Return(s, c, Bool(FALSE))

add_note_to_task(s, c) ==
    IF fk_notes_task(c.id)
    THEN /\ task_notes' = task_notes \cup
               {[id |-> auto_increment.task_notes, task_id |-> c.id,
                 note |-> c.note, created_at |-> clock]}
         /\ auto_increment' = [auto_increment EXCEPT !.task_notes = @ + 1]
         /\ UNCHANGED <<categories, tasks>>
         /\ Return(s, c, Bool(TRUE))
    ELSE /\ UNCHANGED db
         /\ Return(s, c, Bool(FALSE))

\* mutant: DELETE FROM task_notes without WHERE task_id = %s
delete_task_every_note(s, c) ==
    /\ task_notes' = {}
    /\ UNCHANGED <<categories, tasks, auto_increment>>
    /\ Continue(s, c, "delete_task_delete", 0)

\* DELETE FROM task_notes WHERE task_id = %s
delete_task(s, c) ==
    /\ task_notes' = {n \in task_notes : n.task_id # c.id}
    /\ UNCHANGED <<categories, tasks, auto_increment>>
    /\ Continue(s, c, "delete_task_delete", 0)

\* DELETE FROM tasks WHERE id = %s
delete_task_delete(s) ==
    LET c == loc[s].call
    IN  /\ pc[s] = "delete_task_delete"
        /\ UNCHANGED <<clock, last, pre>>
        /\ tasks' = {t \in tasks : t.id # c.id}
        /\ task_notes' = IF \E t \in tasks : t.id = c.id
                         THEN task_notes \ fk_notes_cascade(c.id)
                         ELSE task_notes
        /\ UNCHANGED <<categories, auto_increment>>
        /\ Return(s, c, Bool(TRUE))

(***************************************************************************)
(* Room left under the bounds                                              *)
(***************************************************************************)
PendingNotes == Cardinality({s \in Sessions : pc[s] = "create_task_note"})

RoomForCategory == auto_increment.categories <= MaxCatId
RoomForTask == auto_increment.tasks <= MaxTaskId
RoomForNote == auto_increment.task_notes + PendingNotes <= MaxNoteId

(***************************************************************************)
(* Handlers of server(): one action per button                             *)
(***************************************************************************)
add_new_category(s, new_category_name) ==
    /\ CanBegin(s, MaxOps)
    /\ IF Falsy(new_category_name) \/ Falsy(strip(new_category_name))
       THEN Skip(s, Call("add_new_category", "none", 0, new_category_name,
                         0, "", Empty), ui[s])
       ELSE /\ RoomForCategory
            /\ create_category(s, Call("add_new_category", "create_category", 0,
                                       strip(new_category_name), 0, "", Empty))

update_existing_category(s, selected_category, edit_category_name) ==
    /\ CanBegin(s, MaxOps)
    /\ IF selected_category = 0 \/ Falsy(edit_category_name)
       THEN Skip(s, Call("update_existing_category", "none", selected_category,
                         edit_category_name, 0, "", Empty), ui[s])
       ELSE update_category(s, Call("update_existing_category", "update_category",
                                    selected_category, edit_category_name,
                                    0, "", Empty))

delete_existing_category(s, selected_category) ==
    /\ CanBegin(s, MaxOps)
    /\ IF selected_category = 0
       THEN Skip(s, Call("delete_existing_category", "none", 0, Empty, 0, "", Empty),
                 ui[s])
       ELSE delete_category(s, Call("delete_existing_category", "delete_category",
                                    selected_category, Empty, 0, "", Empty))

add_new_task(s, task_subject, task_category, task_status, task_note) ==
    /\ CanBegin(s, MaxOps)
    /\ IF Falsy(task_subject)
       THEN Skip(s, Call("add_new_task", "none", 0, task_subject, task_category,
                         task_status, task_note), ui[s])
       ELSE /\ RoomForTask
            /\ Falsy(strip(task_note)) \/ RoomForNote
            /\ create_task(s, Call("add_new_task", "create_task", 0, task_subject,
                                   task_category, task_status, task_note))

update_existing_task(s, edit_task_id, edit_subject, edit_category, edit_status) ==
    /\ CanBegin(s, MaxOps)
    /\ IF edit_task_id = 0
       THEN Skip(s, Call("update_existing_task", "none", 0, edit_subject,
                         edit_category, edit_status, Empty), ui[s])
       ELSE update_task(s, Call("update_existing_task", "update_task", edit_task_id,
                                edit_subject, edit_category, edit_status, Empty))

add_task_note(s, edit_task_id, new_note) ==
    /\ CanBegin(s, MaxOps)
    /\ IF edit_task_id = 0 \/ Falsy(new_note)
       THEN Skip(s, Call("add_task_note", "none", edit_task_id, Empty, 0, "",
                         new_note), ui[s])
       ELSE /\ RoomForNote
            /\ add_note_to_task(s, Call("add_task_note", "add_note_to_task",
                                        edit_task_id, Empty, 0, "", new_note))

delete_existing_task(s, edit_task_id) ==
    /\ CanBegin(s, MaxOps)
    /\ IF edit_task_id = 0
       THEN Skip(s, Call("delete_existing_task", "none", 0, Empty, 0, "", Empty),
                 ui[s])
       ELSE delete_task(s, Call("delete_existing_task", "delete_task", edit_task_id,
                                Empty, 0, "", Empty))

perform_search(s, search_term) ==
    /\ CanBegin(s, MaxOps)
    /\ IF Falsy(search_term) \/ Falsy(strip(search_term))
       THEN Skip(s, Call("perform_search", "none", 0, search_term, 0, "", Empty),
                 [ui[s] EXCEPT !.show_search_results = FALSE])
       ELSE search_tasks(s, Call("perform_search", "search_tasks", 0,
                                 strip(search_term), 0, "", Empty))

clear_search(s) ==
    /\ CanBegin(s, MaxOps)
    /\ Skip(s, Call("clear_search", "none", 0, Empty, 0, "", Empty),
            [ui[s] EXCEPT !.search_results = {}, !.show_search_results = FALSE])

\* time passes
Tick ==
    /\ clock < MaxClock
    /\ clock' = clock + 1
    /\ UNCHANGED <<db, pc, loc, ret, ui, last, ops, pre, connections>>

(***************************************************************************)
(* The application                                                         *)
(***************************************************************************)
\* init_database: the tables of a new database, with the default categories
FreshDb ==
    /\ categories = {[id |-> i, name |-> DEFAULT_CATEGORIES[i], created_at |-> 0] :
                        i \in 1..Len(DEFAULT_CATEGORIES)}
    /\ tasks = {}
    /\ task_notes = {}
    /\ auto_increment = [categories |-> Len(DEFAULT_CATEGORIES) + 1,
                         tasks |-> 1, task_notes |-> 1]

\* init_database on the database an earlier run left (CREATE TABLE IF NOT
\* EXISTS, no default inserted into a table that has rows): the one that
\* add_new_task("s", 1, "Idea", " n") makes of the new database
UsedDb ==
    /\ categories = {[id |-> i, name |-> DEFAULT_CATEGORIES[i], created_at |-> 0] :
                        i \in 1..Len(DEFAULT_CATEGORIES)}
    /\ tasks = {[id |-> 1, subject |-> <<"s">>, category |-> 1, status |-> "Idea",
                 created_at |-> 0]}
    /\ task_notes = {[id |-> 1, task_id |-> 1, note |-> <<"n">>, created_at |-> 0]}
    /\ auto_increment = [categories |-> Len(DEFAULT_CATEGORIES) + 1,
                         tasks |-> 2, task_notes |-> 2]

\* the database two further add_new_task make of UsedDb's: a second task in
\* category 1, closed, with a note
BusyDb ==
    /\ categories = {[id |-> i, name |-> DEFAULT_CATEGORIES[i], created_at |-> 0] :
                        i \in 1..Len(DEFAULT_CATEGORIES)}
    /\ tasks = {[id |-> 1, subject |-> <<"s">>, category |-> 1, status |-> "Idea",
                 created_at |-> 0],
                [id |-> 2, subject |-> Space, category |-> 1, status |-> "Closed",
                 created_at |-> 0]}
    /\ task_notes = {[id |-> 1, task_id |-> 1, note |-> <<"n">>, created_at |-> 0],
                     [id |-> 2, task_id |-> 2, note |-> <<"n">>, created_at |-> 0]}
    /\ auto_increment = [categories |-> Len(DEFAULT_CATEGORIES) + 1,
                         tasks |-> 3, task_notes |-> 3]

\* the rest of the state when server() has run for every session
NoSession ==
    /\ clock = 0
    /\ pc = [s \in Sessions |-> "idle"]
    /\ loc = [s \in Sessions |-> NoLoc]
    /\ ret = [s \in Sessions |-> NoRet]
    /\ ui = [s \in Sessions |-> categories_table_render(tasks_table_render(NewUi))]
    /\ last = NoArgs
    /\ ops = 0
    /\ pre = Snapshot
    /\ connections = [s \in Sessions |-> 0]

Init == (FreshDb \/ UsedDb) /\ NoSession

\* every statement is its own transaction (autocommit) and no timestamp is
\* compared in Spec, so the clock stands still in it
Next ==
    \/ \E s \in Sessions : CanBegin(s, MaxOps) /\ UNCHANGED <<clock, last, pre>> /\
          \E n \in Names : add_new_category(s, n)
    \/ \E s \in Sessions : CanBegin(s, MaxOps) /\ UNCHANGED <<clock, last, pre>> /\
          \E id \in {0} \cup CatIds, n \in Names : update_existing_category(s, id, n)
    \/ \E s \in Sessions : CanBegin(s, MaxOps) /\ UNCHANGED <<clock, last, pre>> /\
          \E id \in {0} \cup CatIds : delete_existing_category(s, id)
    \/ \E s \in Sessions : CanBegin(s, MaxOps) /\ UNCHANGED <<clock, last, pre>> /\
          \E sub \in Subjects, cat \in CatIds, st \in StatusInputs, note \in Notes :
             add_new_task(s, sub, cat, st, note)
    \/ \E s \in Sessions : CanBegin(s, MaxOps) /\ UNCHANGED <<clock, last, pre>> /\
          \E id \in {0} \cup TaskIds, sub \in Subjects, cat \in CatIds,
             st \in StatusInputs : update_existing_task(s, id, sub, cat, st)
    \/ \E s \in Sessions : CanBegin(s, MaxOps) /\ UNCHANGED <<clock, last, pre>> /\
          \E id \in {0} \cup TaskIds, note \in Notes : add_task_note(s, id, note)
    \/ \E s \in Sessions : CanBegin(s, MaxOps) /\ UNCHANGED <<clock, last, pre>> /\
          \E id \in {0} \cup TaskIds : delete_existing_task(s, id)
    \/ \E s \in Sessions : CanBegin(s, MaxOps) /\ UNCHANGED <<clock, last, pre>> /\
          \E term \in Terms : perform_search(s, term)
    \/ \E s \in Sessions : UNCHANGED <<clock, last, pre>> /\ clear_search(s)
    \/ \E s \in Sessions : delete_category_delete(s)
    \/ \E s \in Sessions : create_task_note(s)
    \/ \E s \in Sessions : delete_task_delete(s)

Spec == Init /\ [][Next]_vars

(***************************************************************************)
(* One client calling DatabaseManager                                      *)
(***************************************************************************)
\* a method call of the client, remembering the database it found
Api(s, op, id, text, category, status, note) ==
    LET c == Call("api", op, id, text, category, status, note)
    IN  /\ CanBegin(s, MaxCalls)
        /\ last' = c
        /\ pre' = Snapshot
        /\ UNCHANGED clock
        /\ CASE op = "create_category" -> RoomForCategory /\ create_category(s, c)
             [] op = "update_category" -> update_category(s, c)
             [] op = "delete_category" -> delete_category(s, c)
             [] op = "create_task" ->
                    RoomForTask /\ RoomForNote /\ create_task(s, c)
             [] op = "search_tasks" -> search_tasks(s, c)
             [] op = "update_task" -> update_task(s, c)
             [] op = "add_note_to_task" -> RoomForNote /\ add_note_to_task(s, c)
             [] op = "delete_task" -> delete_task(s, c)

NextDb ==
    \/ \E s \in Clients : CanBegin(s, MaxCalls) /\
          \E n \in Names : Api(s, "create_category", 0, n, 0, "", Empty)
    \/ \E s \in Clients : CanBegin(s, MaxCalls) /\
          \E id \in CatIds, n \in Names : Api(s, "update_category", id, n, 0, "", Empty)
    \/ \E s \in Clients : CanBegin(s, MaxCalls) /\
          \E id \in CatIds : Api(s, "delete_category", id, Empty, 0, "", Empty)
    \/ \E s \in Clients : CanBegin(s, MaxCalls) /\
          \E sub \in Subjects, cat \in CatIds, st \in StatusInputs, note \in NoteArgs :
             Api(s, "create_task", 0, sub, cat, st, note)
    \/ \E s \in Clients : CanBegin(s, MaxCalls) /\
          \E term \in Terms \ {Empty} : Api(s, "search_tasks", 0, term, 0, "", Empty)
    \/ \E s \in Clients : CanBegin(s, MaxCalls) /\
          \E id \in TaskIds, sub \in Subjects, cat \in CatIds, st \in StatusInputs :
             Api(s, "update_task", id, sub, cat, st, Empty)
    \/ \E s \in Clients : CanBegin(s, MaxCalls) /\
          \E id \in TaskIds, note \in NoteArgs \ {None} :
             Api(s, "add_note_to_task", id, Empty, 0, "", note)
    \/ \E s \in Clients : CanBegin(s, MaxCalls) /\
          \E id \in TaskIds : Api(s, "delete_task", id, Empty, 0, "", Empty)
    \/ \E s \in Clients : delete_category_delete(s)
    \/ \E s \in Clients : create_task_note(s)
    \/ \E s \in Clients : delete_task_delete(s)
    \/ Tick

InitDb == (FreshDb \/ UsedDb \/ BusyDb) /\ NoSession

SpecDb == InitDb /\ [][NextDb]_vars

(***************************************************************************)
(* One session with its outputs, and a database that can fail              *)
(***************************************************************************)
\* a button of handler h is pressed: last records the handler and its inputs
\* and pre the database the handler finds
Press(h, id, text, category, status, note) ==
    /\ last' = Call(h, "", id, text, category, status, note)
    /\ pre' = Snapshot
    /\ UNCHANGED clock

\* the calls that meet a failure, one for each handler
FaultCalls ==
    {Call("add_new_category", "create_category", 0, <<"s">>, 0, "", Empty),
     Call("update_existing_category", "update_category", 1, <<"s">>, 0, "", Empty),
     Call("delete_existing_category", "delete_category", 2, Empty, 0, "", Empty),
     Call("add_new_task", "create_task", 0, <<"s">>, 1, "Idea", <<" ", "n">>),
     Call("update_existing_task", "update_task", 1, <<"s">>, 2, "Closed", Empty),
     Call("add_task_note", "add_note_to_task", 1, Empty, 0, "", <<" ", "n">>),
     Call("delete_existing_task", "delete_task", 1, Empty, 0, "", Empty),
     Call("perform_search", "search_tasks", 0, <<"s">>, 0, "", Empty)}

ConnectionError == "Database connection error"

\* what method op returns when get_connection returned None
no_connection(op) ==
    CASE op = "delete_category" -> Pair(FALSE, ConnectionError, 0)
      [] op = "search_tasks" -> Rows({})
      [] OTHER -> Bool(FALSE)

\* what method op returns from its except clause
except_Error(op) ==
    CASE op = "delete_category" -> Pair(FALSE, ErrorDeleting, 0)
      [] op = "search_tasks" -> Rows({})
      [] OTHER -> Bool(FALSE)

\* mysql.connector.connect raises Error in the call c of a handler
connection_error(s, c) ==
    /\ CanBegin(s, MaxOps)
    /\ NoConnection(s, c, no_connection(c.op))

\* the first cursor.execute of the call c of a handler raises Error
execute_error(s, c) ==
    /\ CanBegin(s, MaxOps)
    /\ UNCHANGED db
    /\ Return(s, c, except_Error(c.op))

\* a later cursor.execute of the call session s is executing raises Error:
\* the statements before it are committed (autocommit)
statement_error(s) ==
    /\ pc[s] # "idle"
    /\ UNCHANGED <<db, clock, last, pre>>
    /\ Return(s, loc[s].call, except_Error(loc[s].call.op))

\* select_task: the button of a row of the results panel is pressed
select_task(s, task_id) ==
    /\ CanBegin(s, MaxOps)
    /\ ui[s].show_search_results
    /\ \E r \in ui[s].search_results : r.id = task_id
    /\ ops' = ops + 1
    /\ Query(s, [ui[s] EXCEPT !.show_search_results = FALSE])

\* the outputs that depend on a refresh counter are recomputed when the
\* counter has changed since they read it
tasks_table(s) ==
    /\ pc[s] = "idle"
    /\ ui[s].tasks_table_at # ui[s].refresh_tasks
    /\ Query(s, tasks_table_render(ui[s]))
    /\ UNCHANGED <<clock, last, pre, ops>>

categories_table(s) ==
    /\ pc[s] = "idle"
    /\ ui[s].categories_table_at # ui[s].refresh_categories
    /\ Query(s, categories_table_render(ui[s]))
    /\ UNCHANGED <<clock, last, pre, ops>>

\* the reactive flush after a handler has recomputed the outputs: the
\* session takes the next event only then
Flushed(s) ==
    /\ ui[s].tasks_table_at = ui[s].refresh_tasks
    /\ ui[s].categories_table_at = ui[s].refresh_categories

\* UsedDb after category 1 was renamed to 's' with its quotes
QuotedDb ==
    /\ categories = {[id |-> 1, name |-> Quoted, created_at |-> 0],
                     [id |-> 2, name |-> DEFAULT_CATEGORIES[2], created_at |-> 0]}
    /\ tasks = {[id |-> 1, subject |-> <<"s">>, category |-> 1, status |-> "Idea",
                 created_at |-> 0]}
    /\ task_notes = {[id |-> 1, task_id |-> 1, note |-> <<"n">>, created_at |-> 0]}
    /\ auto_increment = [categories |-> Len(DEFAULT_CATEGORIES) + 1,
                         tasks |-> 2, task_notes |-> 2]

\* an event of the session: last records the handler and, of a search, the
\* term
Event(h, term) ==
    Press(h, 0, IF h = "perform_search" THEN term ELSE Empty, 0, "", Empty)

NextUi ==
    \/ \E s \in Clients : CanBegin(s, MaxOps) /\ Flushed(s) /\
          \E n \in Names :
             /\ add_new_category(s, n)
             /\ Event("add_new_category", Empty)
    \/ \E s \in Clients : CanBegin(s, MaxOps) /\ Flushed(s) /\
          \E id \in {0} \cup CatIds, n \in Names :
             /\ update_existing_category(s, id, n)
             /\ Event("update_existing_category", Empty)
    \/ \E s \in Clients : CanBegin(s, MaxOps) /\ Flushed(s) /\
          \E id \in {0} \cup CatIds :
             /\ delete_existing_category(s, id)
             /\ Event("delete_existing_category", Empty)
    \/ \E s \in Clients : CanBegin(s, MaxOps) /\ Flushed(s) /\
          \E sub \in Subjects, cat \in CatIds, st \in StatusInputs, note \in Notes :
             /\ add_new_task(s, sub, cat, st, note)
             /\ Event("add_new_task", Empty)
    \/ \E s \in Clients : CanBegin(s, MaxOps) /\ Flushed(s) /\
          \E id \in {0} \cup TaskIds, sub \in Subjects, cat \in CatIds,
             st \in StatusInputs :
             /\ update_existing_task(s, id, sub, cat, st)
             /\ Event("update_existing_task", Empty)
    \/ \E s \in Clients : CanBegin(s, MaxOps) /\ Flushed(s) /\
          \E id \in {0} \cup TaskIds, note \in Notes :
             /\ add_task_note(s, id, note)
             /\ Event("add_task_note", Empty)
    \/ \E s \in Clients : CanBegin(s, MaxOps) /\ Flushed(s) /\
          \E id \in {0} \cup TaskIds :
             /\ delete_existing_task(s, id)
             /\ Event("delete_existing_task", Empty)
    \/ \E s \in Clients : CanBegin(s, MaxOps) /\ Flushed(s) /\
          \E term \in Terms :
             /\ perform_search(s, term)
             /\ Event("perform_search", term)
    \/ \E s \in Clients : Flushed(s) /\
          /\ clear_search(s)
          /\ Event("clear_search", Empty)
    \/ \E s \in Clients : Flushed(s) /\
          \E id \in TaskIds :
             /\ select_task(s, id)
             /\ Event("select_task", Empty)
    \/ \E s \in Clients : Flushed(s) /\
          \E c \in FaultCalls :
             /\ connection_error(s, c)
             /\ Event(c.h, c.text)
    \/ \E s \in Clients : Flushed(s) /\
          \E c \in FaultCalls :
             /\ execute_error(s, c)
             /\ Event(c.h, c.text)
    \/ \E s \in Clients : statement_error(s)
    \/ \E s \in Clients : delete_category_delete(s)
    \/ \E s \in Clients : create_task_note(s)
    \/ \E s \in Clients : delete_task_delete(s)
    \/ \E s \in Clients : tasks_table(s)
    \/ \E s \in Clients : categories_table(s)

InitUi == (FreshDb \/ UsedDb \/ QuotedDb) /\ NoSession

SpecUi == InitUi /\ [][NextUi]_vars

(***************************************************************************)
(* Two sessions editing and deleting the same tasks                        *)
(***************************************************************************)
NextRace ==
    \/ \E s \in Sessions : CanBegin(s, MaxOps) /\
          \E id \in TaskIds, sub \in Subjects, cat \in CatIds, st \in StatusInputs :
             /\ update_existing_task(s, id, sub, cat, st)
             /\ Press("update_existing_task", id, sub, cat, st, Empty)
    \/ \E s \in Sessions : CanBegin(s, MaxOps) /\
          \E id \in TaskIds :
             /\ delete_existing_task(s, id)
             /\ Press("delete_existing_task", id, Empty, 0, "", Empty)
    \/ \E s \in Sessions : CanBegin(s, MaxOps) /\
          \E id \in CatIds :
             /\ delete_existing_category(s, id)
             /\ Press("delete_existing_category", id, Empty, 0, "", Empty)
    \/ \E s \in Sessions : delete_task_delete(s)
    \/ \E s \in Sessions : delete_category_delete(s)

InitRace == (UsedDb \/ BusyDb) /\ NoSession

SpecRace == InitRace /\ [][NextRace]_vars

(***************************************************************************)
(* Properties of DatabaseManager, checked under SpecDb                     *)
(***************************************************************************)
\* the client's call of method op has returned
Returned(op) == pc[1] = "idle" /\ last.op = op

\* x has a character that is not white space
HasNonSpace(x) == x # None /\ \E i \in 1..Len(x) : x[i] # " "

\* C1: a create_task that returns True has added exactly one row to tasks,
\* with the subject, category and status of the call, and exactly one row
\* to task_notes, attached to the new task, when the note has a character
\* that is not white space, and no row to task_notes when the note is None,
\* empty or white space; no other row of any table is added, changed or
\* removed.
C1_CreateTaskRows ==
    (Returned("create_task") /\ ret[1].ok) =>
        /\ categories = pre.categories
        /\ \E t \in tasks :
              /\ \A p \in pre.tasks : p.id # t.id
              /\ t.subject = last.text
              /\ t.category = last.category
              /\ t.status = last.status
              /\ tasks = pre.tasks \cup {t}
              /\ IF HasNonSpace(last.note)
                 THEN \E n \in task_notes :
                         /\ \A p \in pre.task_notes : p.id # n.id
                         /\ n.task_id = t.id
                         /\ task_notes = pre.task_notes \cup {n}
                 ELSE task_notes = pre.task_notes

\* create_task has returned True for a note with text, in a database that
\* held a task and a note already
C1_Witness ==
    /\ Returned("create_task") /\ ret[1].ok
    /\ HasNonSpace(last.note)
    /\ pre.tasks # {}
    /\ Cardinality(task_notes) = Cardinality(pre.task_notes) + 1

\* C2: after delete_task(t) returns True no row of tasks has id t, no row of
\* task_notes has task_id t, get_all_tasks has no row with id t, and every
\* other task and note is as it was.
C2_DeleteTask ==
    (Returned("delete_task") /\ ret[1].ok) =>
        /\ \A t \in tasks : t.id # last.id
        /\ \A n \in task_notes : n.task_id # last.id
        /\ \A r \in get_all_tasks : r.id # last.id
        /\ tasks = {t \in pre.tasks : t.id # last.id}
        /\ task_notes = {n \in pre.task_notes : n.task_id # last.id}
        /\ categories = pre.categories

\* delete_task has deleted a task that had a note, and another task with a
\* note is left
C2_Witness ==
    /\ Returned("delete_task") /\ ret[1].ok
    /\ \E t \in pre.tasks : t.id = last.id
    /\ \E n \in pre.task_notes : n.task_id = last.id
    /\ \E n \in task_notes : n.task_id # last.id

\* C3: delete_category(c) called when N >= 1 tasks reference c returns False
\* with the message that names N and leaves categories and tasks as they
\* were; called when no task references c it returns True with "Category
\* deleted successfully" and no category has id c afterwards.
C3_DeleteCategory ==
    Returned("delete_category") =>
        LET N == Cardinality({t \in pre.tasks : t.category = last.id})
        IN  IF N >= 1
            THEN /\ ret[1] = Pair(FALSE, InUse, N)
                 /\ categories = pre.categories
                 /\ tasks = pre.tasks
            ELSE /\ ret[1] = Pair(TRUE, Deleted, 0)
                 /\ \A c \in categories : c.id # last.id

\* delete_category has refused to delete a category that tasks reference
C3_Witness ==
    /\ Returned("delete_category")
    /\ ret[1] = Pair(FALSE, InUse, Cardinality(tasks))
    /\ tasks # {}

\* x occurs in y
Substring(x, y) ==
    \E i \in 1..(Len(y) + 1) :
        i + Len(x) - 1 <= Len(y) /\ SubSeq(y, i, i + Len(x) - 1) = x

\* C4: search_tasks(s) returns every task whose subject or whose category's
\* name has s as a substring, and returns nothing when no subject and no
\* category name has (what a pattern made of the term between two wildcards
\* finds).
C4_SearchFindsSubstring ==
    Returned("search_tasks") =>
        /\ \A tc \in tasks_join_categories :
              (Substring(last.text, tc[1].subject) \/ Substring(last.text, tc[2].name))
                  => \E r \in ret[1].rows : r.id = tc[1].id
        /\ (\A t \in tasks : ~Substring(last.text, t.subject))
              /\ (\A c \in categories : ~Substring(last.text, c.name))
              => ret[1].rows = {}

\* what update_task(t, subject, category, status) is to leave of the
\* database pre: the row of t with the three new values, everything else
\* as it was
Updated(t) ==
    /\ get_task_by_id(last.id) =
          {[t EXCEPT !.subject = last.text, !.category = last.category,
                     !.status = last.status]}
    /\ \E r \in get_all_tasks :
          /\ r.id = t.id /\ r.created_at = t.created_at
          /\ r.subject = last.text /\ r.category = last.category
          /\ r.status = last.status
    /\ {x \in tasks : x.id # t.id} = {x \in pre.tasks : x.id # t.id}
    /\ task_notes = pre.task_notes
    /\ categories = pre.categories

C6_TaskCategoryExists ==
    \A t \in tasks : \E c \in categories : c.id = t.category

\* a delete_category found no task referencing the category and its DELETE
\* was then refused: another session's task landed between the two
C6_Witness ==
    \E s \in Sessions :
        /\ ui[s].edit_category_message.msg = ErrorDeleting
        /\ tasks # {}

\* x is empty or white space only
Blank(x) == \A i \in 1..Len(x) : x[i] = " "

\* C7: Add Task pressed with an empty or white-space subject, and Search
\* pressed with an empty or white-space term, do nothing: no call of
\* DatabaseManager, no new row, refresh_tasks as it was, search_results as
\* it was.
C7_BlankIsNoOp ==
    [][\A s \in Sessions :
          /\ \A sub \in Subjects, cat \in CatIds, st \in StatusInputs, note \in Notes :
                (Blank(sub) /\ add_new_task(s, sub, cat, st, note)) =>
                    /\ UNCHANGED <<db, pc, ret>>
                    /\ ui'[s].refresh_tasks = ui[s].refresh_tasks
                    /\ ui'[s].search_results = ui[s].search_results
          /\ \A term \in Terms :
                (Blank(term) /\ perform_search(s, term)) =>
                    /\ UNCHANGED <<db, pc, ret>>
                    /\ ui'[s].refresh_tasks = ui[s].refresh_tasks
                    /\ ui'[s].search_results = ui[s].search_results
      ]_vars

\* C8: every stored task has a subject that is not empty.
C8_SubjectNotEmpty ==
    \A t \in tasks : t.subject # Empty

\* no two categories have the same name
NamesDiffer ==
    \A c \in categories, d \in categories : c.id # d.id => c.name # d.name

NotesBelong ==
    \A n \in task_notes : Cardinality({t \in tasks : t.id = n.task_id}) = 1

\* C10: in every reachable state, however the sessions interleave, every
\* note's task_id is the id of exactly one existing task; add_note_to_task
\* for a task id that no task has returns False and adds no note.
C10_NoteBelongsToTask ==
    /\ NotesBelong
    /\ [][/\ NotesBelong'
          /\ \A s \in Sessions :
                \/ ~ret'[s].ok /\ task_notes' = task_notes
                \/ \A id \in TaskIds, note \in Notes :
                      ~(/\ pc[s] = "idle"
                        /\ note # Empty
                        /\ (\A t \in tasks : t.id # id)
                        /\ add_task_note(s, id, note))
         ]_vars

\* a session is between the two DELETE statements of delete_task and the
\* other has added a note to that task meanwhile
C10_Witness ==
    \E s \in Sessions :
        /\ pc[s] = "delete_task_delete"
        /\ \E n \in task_notes : n.task_id = loc[s].call.id

\* C11: a note row, once it exists, keeps its text, task_id and created_at
\* in every step; the only steps that remove it are those of delete_task of
\* its task (the DELETE FROM task_notes, or the cascade of the DELETE FROM
\* tasks); every other operation leaves all existing notes as they were.
C11_NotesImmutable ==
    [][\A n \in task_notes :
          \/ n \in task_notes'
          \/ /\ \A m \in task_notes' : m.id # n.id
             /\ \E s \in Sessions :
                   \/ pc[s] = "idle" /\ delete_existing_task(s, n.task_id)
                   \/ delete_task_delete(s) /\ loc[s].call.id = n.task_id
      ]_vars

\* the first note of task 1 is as it was after a second note was added to
\* the task and a category operation succeeded
C11_Witness ==
    /\ [id |-> 1, task_id |-> 1, note |-> <<"n">>, created_at |-> 0] \in task_notes
    /\ \E m \in task_notes : m.id # 1 /\ m.task_id = 1
    /\ \E s \in Sessions : ui[s].refresh_categories = 1

(***************************************************************************)
(* Properties of concurrent edits, checked under SpecRace                  *)
(***************************************************************************)
\* what update_existing_task(s, id, sub, cat, st) does when update_task
\* returns True: refresh_tasks of s goes up by one and the row id, if there
\* is one, takes the three values, every other row staying as it was
Overwrites(s, id, sub, cat, st) ==
    /\ ret'[s] = Bool(TRUE)
    /\ ui'[s].refresh_tasks = ui[s].refresh_tasks + 1
    /\ tasks' = {IF t.id = id
                 THEN [t EXCEPT !.subject = sub, !.category = cat, !.status = st]
                 ELSE t : t \in tasks}
    /\ UNCHANGED <<categories, task_notes>>

\* Every step of update_existing_task in SpecRace records its inputs in
\* last, so the step of a session is told by last' and the handler's action.

\* C13 as stated: update_task by either session on an existing task returns
\* True and leaves the task with the values of that call, whatever the task
\* held before; on a task that is gone it returns True, refresh_tasks is
\* incremented and no row is created or changed.
C13_LastUpdateWinsAlways ==
    [][\A s \in Sessions :
          (/\ last'.h = "update_existing_task"
           /\ update_existing_task(s, last'.id, last'.text, last'.category,
                                   last'.status))
              => Overwrites(s, last'.id, last'.text, last'.category, last'.status)
      ]_vars

\* C13: update_task by either session on an existing task, with a category
\* that exists when the call executes, returns True and leaves the task with
\* the values of that call, whatever another session wrote before; with a
\* category that does not exist it returns False and changes nothing; on a
\* task that is gone it returns True, refresh_tasks is incremented and no
\* row is created or changed.
C13_LastUpdateWins ==
    [][\A s \in Sessions :
          (/\ last'.h = "update_existing_task"
           /\ update_existing_task(s, last'.id, last'.text, last'.category,
                                   last'.status))
              => IF /\ \E t \in tasks : t.id = last'.id
                    /\ \A c \in categories : c.id # last'.category
                 THEN /\ ret'[s] = Bool(FALSE)
                      /\ ui'[s] = ui[s]
                      /\ UNCHANGED db
                 ELSE /\ Overwrites(s, last'.id, last'.text, last'.category,
                                    last'.status)
                      /\ (\A t \in tasks : t.id # last'.id) => tasks' = tasks
      ]_vars

\* both sessions have updated task 1, one after the other, and the task
\* holds the values of the second update, which differ from the first's
C13_Witness ==
    /\ pc = [s \in Sessions |-> "idle"]
    /\ last.h = "update_existing_task" /\ last.id = 1
    /\ \A s \in Sessions : ui[s].refresh_tasks = 1 /\ ret[s] = Bool(TRUE)
    /\ \E t \in pre.tasks : t.id = 1 /\ t.subject = Space /\ t.status = "Closed"
    /\ \E t \in tasks : /\ t.id = 1
                        /\ t.subject = last.text /\ t.subject = Empty
                        /\ t.category = last.category
                        /\ t.status = last.status /\ t.status = "Idea"

(***************************************************************************)
(* Properties of one session, checked under SpecUi                         *)
(***************************************************************************)
\* the handlers of the mutating methods create_category, update_category,
\* create_task, update_task, add_note_to_task and delete_task
Mutating ==
    {"add_new_category", "update_existing_category", "add_new_task",
     "update_existing_task", "add_task_note", "delete_existing_task"}

\* the step ends the handler the session is in: last' names the handler and
\* pre' is the database it found
Ends == pc'[1] = "idle" /\ ops' = ops + 1

\* C12: when a mutating method returns False, whether get_connection or a
\* statement failed, the stored categories, tasks and notes are those the
\* call found, and the handler increments no refresh counter.
C12_FailureDoesNothing ==
    [][(Ends /\ last'.h \in Mutating /\ ret'[1] = Bool(FALSE)) =>
          /\ categories' = pre'.categories
          /\ tasks' = pre'.tasks
          /\ task_notes' = pre'.task_notes
          /\ ui'[1].refresh_tasks = ui[1].refresh_tasks
          /\ ui'[1].refresh_categories = ui[1].refresh_categories
      ]_vars

\* the outputs have recomputed and show the database as it is
UpToDate ==
    (pc[1] = "idle" /\ Flushed(1)) =>
        /\ ui[1].tasks_table = get_all_tasks
        /\ ui[1].categories_table = get_all_categories

\* C14: in one session the refresh counters never decrease; a handler that
\* changed the stored tasks or notes has incremented refresh_tasks and one
\* that changed the stored categories has incremented refresh_categories
\* (update_existing_category both); and when the outputs have recomputed,
\* tasks_table and categories_table are get_all_tasks and get_all_categories
\* of the database as it is.
C14_RefreshFollowsChange ==
    /\ UpToDate
    /\ [][/\ UpToDate'
          /\ ui'[1].refresh_tasks >= ui[1].refresh_tasks
          /\ ui'[1].refresh_categories >= ui[1].refresh_categories
          /\ Ends =>
                /\ (tasks' # pre'.tasks \/ task_notes' # pre'.task_notes) =>
                       ui'[1].refresh_tasks = ui[1].refresh_tasks + 1
                /\ (categories' # pre'.categories) =>
                       ui'[1].refresh_categories = ui[1].refresh_categories + 1
                /\ (categories' # pre'.categories
                        /\ last'.h = "update_existing_category") =>
                       ui'[1].refresh_tasks = ui[1].refresh_tasks + 1
         ]_vars

\* the event the session takes in this step, "" when the step is a later
\* statement of a call or the recomputation of an output
Pressed ==
    IF pc[1] = "idle" /\ (ops' = ops + 1 \/ pc'[1] # "idle") THEN last'.h ELSE ""

====
